---- MODULE Spec2Model ----
(***************************************************************************)
(* A model of Pyradiomics.py: the file discovery, the output layout and    *)
(* the per-participant / per-region extraction loop of main(), driven from  *)
(* the desktop form.  File names, prefixes and participant IDs are          *)
(* sequences of characters; a text file is a sequence of lines; an output   *)
(* file is the sequence of the pieces written to it.                        *)
(***************************************************************************)
EXTENDS Integers, Sequences, FiniteSets, TLC

\* ------------------------------------------------------------------ bounds
\* longest participant list read from the ID file
MaxPpts == 2
\* most lines of the mask-values file
MaxRegions == 2
\* most entries of a directory handed to resolve_target_filepath alone
MaxListing == 2
\* most features of one extractor result
MaxFeatures == 2
\* most presses of "Run Radiomics!" (or launches of the program)
MaxRuns == 2

\* most entries set with a file dialog between two runs
MaxPicks == 2

\* ------------------------------------------------------------- sequences
Range(s) == {s[k] : k \in 1..Len(s)}

SeqsUpTo(S, n) == UNION {[1..k -> S] : k \in 0..n}

\* str.startswith
StartsWith(s, p) == Len(p) <= Len(s) /\ SubSeq(s, 1, Len(p)) = p

\* the control characters that have no escape: vertical tab (0x0b) and the
\* file, group, record and unit separators (0x1c to 0x1f), one character each
VT == ""

FS == ""

GS == ""

RS == ""

US == ""

\* the characters str.strip() removes, as far as a string of this module
\* can hold them: space, line feed, tab, carriage return, form feed, vertical
\* tab and the four separators (the others are the spaces beyond ASCII)
Whitespace == {" ", "\n", "\t", "\r", "\f", VT, FS, GS, RS, US}

RECURSIVE LStrip(_)
LStrip(s) == IF s # <<>> /\ Head(s) \in Whitespace THEN LStrip(Tail(s)) ELSE s

RECURSIVE RStrip(_)
RStrip(s) ==
    IF s # <<>> /\ s[Len(s)] \in Whitespace THEN RStrip(SubSeq(s, 1, Len(s) - 1)) ELSE s

\* str.strip()
Strip(s) == RStrip(LStrip(s))

\* str.split(separator): the pieces between the occurrences of the separator
RECURSIVE SplitFrom(_, _, _)
SplitFrom(s, sep, cur) ==
    IF s = <<>> THEN <<cur>>
    ELSE IF Head(s) = sep THEN <<cur>> \o SplitFrom(Tail(s), sep, <<>>)
    ELSE SplitFrom(Tail(s), sep, Append(cur, Head(s)))

Split(s, sep) == SplitFrom(s, sep, <<>>)

Digits == <<"0", "1", "2", "3", "4", "5", "6", "7", "8", "9">>

DigitValue(c) == (CHOOSE k \in 1..10 : Digits[k] = c) - 1

\* the text of an integer without its sign
Unsigned(s) == IF s # <<>> /\ Head(s) \in {"+", "-"} THEN Tail(s) ELSE s

\* int(text) accepts an optional sign and decimal digits, with single
\* underscores between digits (the text being stripped already)
IsInt(s) ==
    LET body == Unsigned(s)
    IN  /\ body # <<>>
        /\ \A k \in 1..Len(body) : body[k] \in Range(Digits) \cup {"_"}
        /\ body[1] # "_" /\ body[Len(body)] # "_"
        /\ \A k \in 1..(Len(body) - 1) : ~(body[k] = "_" /\ body[k + 1] = "_")

\* the value of a sequence of digits
RECURSIVE DigitsValue(_)
DigitsValue(s) ==
    IF s = <<>> THEN 0 ELSE 10 * DigitsValue(SubSeq(s, 1, Len(s) - 1)) + DigitValue(s[Len(s)])

\* int(text) of a text int() accepts
IntOf(s) ==
    LET magnitude == DigitsValue(SelectSeq(Unsigned(s), LAMBDA c : c # "_"))
    IN  IF s # <<>> /\ Head(s) = "-" THEN 0 - magnitude ELSE magnitude

\* ------------------------------------------------------------ filesystem
\* A directory entry: a regular file, a directory, or a symbolic link whose
\* target is gone (os.listdir names it, os.path.exists denies it).
Kinds == {"file", "dir", "dangling"}

\* os.path.isdir
isdir(e) == e.kind = "dir"

\* os.path.exists
exists(e) == e.kind \in {"file", "dir"}

\* A file or directory the form points at: present or not, and its content.
Absent(name, c) == [name |-> name, present |-> FALSE, content |-> c]

Present(name, c) == [name |-> name, present |-> TRUE, content |-> c]

\* object_exists(path)
object_exists(obj) == obj.present

\* ------------------------------------------------------------ text files
\* lines_from_file: the stripped, non-blank lines, in order; open() fails on
\* a file that is not there.
lines_from_file(file) ==
    IF ~file.present THEN [raised |-> TRUE, lines |-> <<>>]
    ELSE LET stripped == [k \in 1..Len(file.content) |-> Strip(file.content[k])]
         IN  [raised |-> FALSE, lines |-> SelectSeq(stripped, LAMBDA l : l # <<>>)]

\* A dict in insertion order: a sequence of key/value pairs with distinct keys.
\* key in d
HasKey(d, key) == \E k \in 1..Len(d) : d[k].key = key

\* (mutant) the first value of a key is kept
DictSet_KeepFirst(d, key, value) ==
    IF HasKey(d, key) THEN d ELSE Append(d, [key |-> key, value |-> value])

\* values[key] = value: a new key goes last, an old key keeps its place
\* and takes the new value
DictSet(d, key, value) ==
    IF HasKey(d, key)
    THEN [k \in 1..Len(d) |-> IF d[k].key = key THEN [key |-> key, value |-> value] ELSE d[k]]
    ELSE Append(d, [key |-> key, value |-> value])

\* one line of dict_from_file: key, value = line.split(separator);
\* values[int(key.strip())] = value.strip()
LineOk(line, separator) ==
    /\ Len(Split(line, separator)) = 2
    /\ IsInt(Strip(Split(line, separator)[1]))

RECURSIVE DictFromLines(_, _, _)
DictFromLines(lines, separator, values) ==
    IF lines = <<>> THEN values
    ELSE LET parts == Split(Head(lines), separator)
         IN  DictFromLines(Tail(lines), separator,
                           DictSet(values, IntOf(Strip(parts[1])), Strip(parts[2])))

\* dict_from_file: the mapping of all the lines, or the failure of open(), of
\* the unpacking of split() or of int(), which nothing catches.
dict_from_file(file, separator) ==
    IF ~file.present \/ \E k \in 1..Len(file.content) : ~LineOk(file.content[k], separator)
    THEN [raised |-> TRUE, values |-> <<>>]
    ELSE [raised |-> FALSE, values |-> DictFromLines(file.content, separator, <<>>)]

\* ------------------------------------------------------- parameter file
\* What yaml.safe_load returns: a mapping from section names to dicts.
NoneValue == [none |-> TRUE, value |-> 0]

Some(v) == [none |-> FALSE, value |-> v]

\* d[key] of a dict that has the key
DictGet(d, key) == d[CHOOSE k \in 1..Len(d) : d[k].key = key].value

\* A YAML node: a mapping (a dict of its items) or not one (null, a scalar, a list)
Mapping(items) == [mapping |-> TRUE, items |-> items]

NotMapping == [mapping |-> FALSE, items |-> <<>>]

Item(key, value) == [key |-> key, value |-> value]

\* (mutant) KeyError is not caught
get_parameter_value_Uncaught(file, setting, field) ==
    IF ~object_exists(file) THEN [raised |-> FALSE, value |-> NoneValue]
    ELSE LET data == file.content
         IN  IF ~data.mapping \/ ~HasKey(data.items, setting)
             THEN [raised |-> TRUE, value |-> NoneValue]
             ELSE LET section == DictGet(data.items, setting)
                  IN  IF ~section.mapping \/ ~HasKey(section.items, field)
                      THEN [raised |-> TRUE, value |-> NoneValue]
                      ELSE [raised |-> FALSE, value |-> Some(DictGet(section.items, field))]

\* get_parameter_value: None when the file is not there, and None as well when
\* data[setting][field] raises KeyError, which the function catches and prints;
\* subscripting what is not a mapping raises TypeError, which it does not catch.
get_parameter_value(file, setting, field) ==
    IF ~object_exists(file) THEN [raised |-> FALSE, value |-> NoneValue]
    ELSE LET data == file.content
         IN  IF ~data.mapping THEN [raised |-> TRUE, value |-> NoneValue]
             ELSE IF ~HasKey(data.items, setting) THEN [raised |-> FALSE, value |-> NoneValue]
             ELSE LET section == DictGet(data.items, setting)
                  IN  IF ~section.mapping THEN [raised |-> TRUE, value |-> NoneValue]
                      ELSE IF ~HasKey(section.items, field)
                           THEN [raised |-> FALSE, value |-> NoneValue]
                           ELSE [raised |-> FALSE, value |-> Some(DictGet(section.items, field))]

RECURSIVE Decimal(_)
Decimal(n) == IF n < 10 THEN <<Digits[n + 1]>> ELSE Append(Decimal(n \div 10), Digits[(n % 10) + 1])

\* str(value)
str(v) == IF v.none THEN <<"N", "o", "n", "e">> ELSE Decimal(v.value)

\* date_today(): the day of the run, the same in every run of one behaviour
date_today == <<"date">>

\* verbose_output_location: where/<date>_BinWidth_<str(binwidth)>
verbose_output_location(where, parameters) ==
    LET binwidth == get_parameter_value(parameters, "setting", "binWidth")
    IN  [raised |-> binwidth.raised,
         where_verbose |-> [where |-> where,
                            leaf |-> date_today \o <<"_BinWidth_">> \o str(binwidth.value)]]

\* ------------------------------------------------------------ output tree
\* A path below an output root: the root itself (no folder, no file), a
\* participant folder, or a file in a participant folder.
Path(root, folder, file) == [root |-> root, folder |-> folder, file |-> file]

FolderName(ID) == ID \o <<"_Features">>

FileName(ID) == ID \o <<"_FeatureValues.txt">>

\* os.path.join(output_location, f"{ppt}_Features", f"{ppt}_FeatureValues.txt")
FeatureOutpath(root, ppt) == Path(root, FolderName(ppt), FileName(ppt))

\* The directories that are there before the program runs and that it never
\* makes: what the output entry of the form names.
Existing == {"", "out"}

\* the directory a path of the output tree lies in is there
ParentExists(dirs, path) ==
    IF path.folder = <<>> THEN path.root.where \in Existing
    ELSE Path(path.root, <<>>, <<>>) \in dirs

\* os.mkdir(path): the directory is made; FileExistsError when the path is
\* there already, FileNotFoundError when its parent is not
mkdir(dirs, path) ==
    IF path \in dirs \/ ~ParentExists(dirs, path)
    THEN [raised |-> TRUE, dirs |-> dirs]
    ELSE [raised |-> FALSE, dirs |-> dirs \cup {path}]

\* (mutant) the folders are made without looking first
RECURSIVE MakeFolders_NoCheck(_, _, _)
MakeFolders_NoCheck(dirs, where, foldernames) ==
    IF foldernames = <<>> THEN [raised |-> FALSE, dirs |-> dirs]
    ELSE LET made == mkdir(dirs, Path(where, FolderName(Head(foldernames)), <<>>))
         IN  IF made.raised THEN made
             ELSE MakeFolders_NoCheck(made.dirs, where, Tail(foldernames))

\* the loop of create_output_folders: one mkdir per folder that is not there;
\* an error of mkdir ends the loop and leaves what was made
RECURSIVE MakeFolders(_, _, _)
MakeFolders(dirs, where, foldernames) ==
    IF foldernames = <<>> THEN [raised |-> FALSE, dirs |-> dirs]
    ELSE LET out_folder == Path(where, FolderName(Head(foldernames)), <<>>)
             made == IF out_folder \in dirs THEN [raised |-> FALSE, dirs |-> dirs]
                     ELSE mkdir(dirs, out_folder)
         IN  IF made.raised THEN made
             ELSE MakeFolders(made.dirs, where, Tail(foldernames))

\* create_output_folders: the root when it is not there, then the folders;
\* the directories after the call, and whether mkdir raised
create_output_folders(dirs, where, foldernames) ==
    LET root == Path(where, <<>>, <<>>)
        made == IF root \in dirs THEN [raised |-> FALSE, dirs |-> dirs] ELSE mkdir(dirs, root)
    IN  IF made.raised THEN made ELSE MakeFolders(made.dirs, where, foldernames)

\* --------------------------------------------------------------- resolver
NonePrefix == [none |-> TRUE, s |-> <<>>]

Prefix(s) == [none |-> FALSE, s |-> s]

NoPath == [dir |-> "", name |-> <<>>]

\* the argument of exit() in resolve_target_filepath
ExitStatus == 3

\* how a call ends: it returns (found, fullpath), or exit(status), or it raises
Returns(found, fullpath) ==
    [outcome |-> "return", found |-> found, fullpath |-> fullpath, status |-> 0]

\* (mutant) a selected entry that is gone counts as not found
Exits_NotFound(status, fullpath) == Returns(FALSE, fullpath)

Exits(status, fullpath) ==
    [outcome |-> "exit", found |-> FALSE, fullpath |-> fullpath, status |-> status]

Raises == [outcome |-> "raise", found |-> FALSE, fullpath |-> NoPath, status |-> 0]

\* the entries of the listing that are not directories, in listing order
NonDirectories(listing) == SelectSeq(listing, LAMBDA e : ~isdir(e))

\* (mutant) the ID is looked for without the prefix
Matches_NoPrefix(files, prefix, ID) == SelectSeq(files, LAMBDA e : StartsWith(e.name, ID))

\* next(filter(startswith prefix+ID, files), None): the matches, first first
Matches(files, prefix, ID) == SelectSeq(files, LAMBDA e : StartsWith(e.name, prefix \o ID))

\* resolve_target_filepath: (found, fullpath) when it returns; exit(3) when the
\* selected entry does not exist; os.listdir raises on a missing directory.
resolve_target_filepath(path, prefix, ID) ==
    IF ~path.present
    THEN Raises
    ELSE LET pfx     == IF prefix.none THEN <<>> ELSE prefix.s
             files   == NonDirectories(path.content)
             targets == Matches(files, pfx, ID)
         IN  IF targets # <<>>
             THEN LET target == Head(targets)
                      fullpath == [dir |-> path.name, name |-> target.name]
                  IN  IF exists(target)
                      THEN Returns(TRUE, fullpath)
                      ELSE Exits(ExitStatus, fullpath)
             ELSE Returns(FALSE, NoPath)

\* -------------------------------------------------------------- extractor
\* What one open(feature_outpath, 'a') block writes: pieces of text, each a
\* line break or the text of one line.
Piece(t, name, index, feature, value, msg) ==
    [t |-> t, name |-> name, index |-> index, feature |-> feature, value |-> value, msg |-> msg]

NL == Piece("NL", <<>>, 0, "", 0, "")

\* f"$MASKERROR[{mask_values[index]}:{index}] {error}"
MaskError(name, index, msg) == Piece("MASKERROR", name, index, "", 0, msg)

\* f"$[{mask_values[index]}:{index}]"
Header(name, index) == Piece("HEADER", name, index, "", 0, "")

\* f"{feature}:{value}"
FeatureLine(feature, value) == Piece("FEATURE", <<>>, 0, feature, value, "")

MaskBreak == Piece("MASKBREAK", <<>>, 0, "", 0, "")

\* (mutant) the error line is written inside a block
ErrorText_Block(name, index, msg) ==
    <<NL, Header(name, index), NL, MaskError(name, index, msg), NL, MaskBreak, NL>>

\* feat_out.write(f"\n$MASKERROR[...] {error}\n")
ErrorText(name, index, msg) == <<NL, MaskError(name, index, msg), NL>>

\* the writes of the success block: "\n$[name:index]", then "\n{feature}:{value}"
\* per item of the result in its iteration order, then "\nMASKBREAK\n"
RECURSIVE FeatureText(_)
FeatureText(result) ==
    IF result = <<>> THEN <<>>
    ELSE <<NL, FeatureLine(Head(result).key, Head(result).value)>> \o FeatureText(Tail(result))

\* (mutant) the sentinel is forgotten
SuccessText_NoBreak(name, index, result) ==
    <<NL, Header(name, index)>> \o FeatureText(result) \o <<NL>>

SuccessText(name, index, result) ==
    <<NL, Header(name, index)>> \o FeatureText(result) \o <<NL, MaskBreak, NL>>

\* The feature mappings extractor.execute may return (dicts in iteration order)
FeatureNames == <<"firstorder_Mean", "shape_Volume", "glcm_Contrast", "glrlm_RunEntropy">>

\* the empty mapping and the mapping of MaxFeatures features
Results == {[k \in 1..n |-> [key |-> FeatureNames[k], value |-> 10 * k]] : n \in {0, MaxFeatures}}

\* The messages of the ValueError a degenerate mask raises
ErrorMessages == {"mask only contains 1 segmented voxel"}

\* ------------------------------------------------------------------ state
VARIABLES
    form,             \* what the entries of the form point at, and the two prefixes
    dirs,             \* the directories of the output tree
    files,            \* the files of the output tree: path -> pieces written
    pc,               \* where the program is
    run,              \* the number of this run
    prev,             \* how the run before this one ended
    dialogs,          \* the message boxes of the last perform_startup_checks
    mask_values,      \* main(): the dict of dict_from_file
    participant_IDs,  \* main(): the list of lines_from_file
    output_location,  \* main(): the output root
    i,                \* main(): position in participant_IDs
    ROI,              \* main(): (ROI_found, ROI_path)
    T1,               \* main(): (T1_found, T1_path)
    r,                \* main(): position in mask_values.keys()
    pstate,           \* per position of the list: how its iteration ended
    calls,            \* the calls of extractor.execute of this run, in order
    picks             \* the entries set with a dialog since the run before ended

vars == <<form, dirs, files, pc, run, prev, dialogs, mask_values, participant_IDs,
          output_location, i, ROI, T1, r, pstate, calls, picks>>

\* ----------------------------------------------------------------- inputs
IDAll == {<<"a">>, <<"a", "b">>}

Line(text) == text \o <<"\n">>

\* the participant ID files: MaxPpts lines, one ID each, and the file of a
\* dialog that was cancelled (the empty string: no file)
IDFiles ==
    {Present("ids", l) : l \in [1..MaxPpts -> {Line(ID) : ID \in IDAll}]}
        \cup {Absent("ids", <<>>)}

\* the lines "1:A", "14 : H", "2:B"
MaskLines == <<Line(<<"1", ":", "A">>), Line(<<"1", "4", " ", ":", " ", "H">>),
               Line(<<"2", ":", "B">>)>>

\* the mask-values files: no line, MaxRegions lines, and no file
MaskFiles ==
    {Present("maskvalues", SubSeq(MaskLines, 1, n)) : n \in {0, MaxRegions}}
        \cup {Absent("maskvalues", <<>>)}

\* setting: {binWidth: 25}
GoodYAML ==
    Present("params", Mapping(<<Item("setting", Mapping(<<Item("binWidth", 25)>>))>>))

\* parameter files: with setting.binWidth, without binWidth, without setting,
\* with an empty setting (null), and no file
YAMLFiles ==
    { GoodYAML,
      Present("params", Mapping(<<Item("setting", Mapping(<<Item("label", 1)>>))>>)),
      Present("params", Mapping(<<Item("imageType", Mapping(<<>>))>>)),
      Present("params", Mapping(<<Item("setting", NotMapping)>>)),
      Absent("params", NotMapping) }

Entry(name, kind) == [name |-> name, kind |-> kind]

\* directory listings: up to n entries with different names
Listings(names, kinds, n) ==
    {l \in SeqsUpTo({Entry(nm, k) : nm \in names, k \in kinds}, n) :
        \A x, y \in 1..Len(l) : x # y => l[x].name # l[y].name}

\* the ROI directories: one that holds "ab" (the file of both IDs), one that
\* holds "ax" (the file of ID a alone), one that holds "ax" and a dangling
\* link "ab", and no directory
RegionDirs ==
    { Present("regions", <<Entry(<<"a", "b">>, "file")>>),
      Present("regions", <<Entry(<<"a", "x">>, "file")>>),
      Present("regions", <<Entry(<<"a", "x">>, "file"), Entry(<<"a", "b">>, "dangling")>>),
      Absent("regions", <<>>) }

\* the volume directories: one that holds "pab", an empty one, one that
\* holds a dangling link "pab", and no directory
VolumeDirs ==
    { Present("volumes", <<Entry(<<"p", "a", "b">>, "file")>>),
      Present("volumes", <<>>),
      Present("volumes", <<Entry(<<"p", "a", "b">>, "dangling")>>),
      Absent("volumes", <<>>) }

\* The forms the operator has filled in: the entries with a button hold any
\* of the above, the volume prefix is "p", the ROI prefix is empty and the
\* output location is "out".
Forms ==
    [ volumes : VolumeDirs, regions : RegionDirs, maskvalues : MaskFiles,
      YAMLparams : YAMLFiles, IDs_file : IDFiles,
      volume_prefix : {Prefix(<<"p">>)}, regions_prefix : {Prefix(<<>>)},
      output_location : {"out"} ]

\* ------------------------------------------------------------------- init
Unset == [outcome |-> "unset", found |-> FALSE, fullpath |-> NoPath, status |-> 0]

NoFiles == [p \in {} |-> <<>>]

\* the form of a program that was just started: every entry is empty
EmptyForm ==
    [ volumes |-> Absent("volumes", <<>>), regions |-> Absent("regions", <<>>),
      maskvalues |-> Absent("maskvalues", <<>>), YAMLparams |-> Absent("params", NotMapping),
      IDs_file |-> Absent("ids", <<>>),
      volume_prefix |-> Prefix(<<>>), regions_prefix |-> Prefix(<<>>),
      output_location |-> "" ]

\* the window is open: its entries are empty or filled in, nothing was run
Init ==
    /\ form \in Forms \cup {EmptyForm}
    /\ dirs = {}
    /\ files = NoFiles
    /\ pc = "idle"
    /\ run = 1
    /\ prev = "none"
    /\ dialogs = <<>>
    /\ mask_values = <<>>
    /\ participant_IDs = <<>>
    /\ output_location = [where |-> "", leaf |-> <<>>]
    /\ i = 0
    /\ ROI = Unset
    /\ T1 = Unset
    /\ r = 0
    /\ pstate = <<>>
    /\ calls = <<>>
    /\ picks = 0

\* ---------------------------------------------------------- startup checks
\* (mutant) the checks stop at the first path that is not there
perform_startup_checks_StopAtFirst(f) ==
    LET paths_list == <<f.volumes, f.regions, f.maskvalues, f.YAMLparams>>
        bad == {k \in 1..4 : ~paths_list[k].present}
        last == IF bad = {} THEN 4 ELSE CHOOSE k \in bad : \A j \in bad : k <= j
    IN  [k \in 1..last |->
            [path |-> paths_list[k].name,
             box |-> IF paths_list[k].present THEN "showinfo" ELSE "showerror"]]

\* perform_startup_checks: one message box per path of paths_list, in order:
\* showinfo when os.path.exists, showerror when not.
perform_startup_checks(f) ==
    LET paths_list == <<f.volumes, f.regions, f.maskvalues, f.YAMLparams>>
        checkpath_results == [k \in 1..4 |-> paths_list[k].present]
    IN  [k \in 1..4 |->
            [path |-> paths_list[k].name,
             box |-> IF checkpath_results[k] THEN "showinfo" ELSE "showerror"]]

\* the button "Run Input Checks": the checks alone
RunInputChecks ==
    /\ pc = "idle"
    /\ dialogs' = perform_startup_checks(form)
    /\ UNCHANGED <<form, picks, dirs, files, pc, run, prev, mask_values, participant_IDs,
                   output_location, i, ROI, T1, r, pstate, calls>>

\* the button "Run Radiomics!": main() begins with the checks
MainStartupChecks ==
    /\ pc = "idle"
    /\ dialogs' = perform_startup_checks(form)
    /\ pc' = "setup"
    /\ UNCHANGED <<form, picks, dirs, files, run, prev, mask_values, participant_IDs,
                   output_location, i, ROI, T1, r, pstate, calls>>

\* ------------------------------------------------------------------ set-up
\* main(), from reading the entries to create_output_folders.  A failure of
\* dict_from_file, lines_from_file or verbose_output_location is caught by
\* nothing and ends the run before any folder is made; so does an error of
\* mkdir, after the folders made before it.
MainSetup ==
    /\ pc = "setup"
    /\ LET mv  == dict_from_file(form.maskvalues, ":")
           ids == lines_from_file(form.IDs_file)
           out == verbose_output_location(form.output_location, form.YAMLparams)
           made == create_output_folders(dirs, out.where_verbose, ids.lines)
       IN  IF mv.raised \/ ids.raised \/ out.raised
           THEN /\ pc' = "raise"
                /\ UNCHANGED <<mask_values, participant_IDs, output_location, dirs, i, pstate>>
           ELSE IF made.raised
           THEN /\ pc' = "raise"
                /\ dirs' = made.dirs
                /\ UNCHANGED <<mask_values, participant_IDs, output_location, i, pstate>>
           ELSE /\ mask_values' = mv.values
                /\ participant_IDs' = ids.lines
                /\ output_location' = out.where_verbose
                /\ dirs' = made.dirs
                /\ i' = 1
                /\ pstate' = [k \in 1..Len(ids.lines) |-> "PENDING"]
                /\ pc' = "participant"
    /\ UNCHANGED <<form, picks, files, run, prev, dialogs, ROI, T1, r, calls>>

\* ------------------------------------------------------------------- loop
ppt == participant_IDs[i]

feature_outpath == FeatureOutpath(output_location, ppt)

\* the two calls of resolve_target_filepath of one iteration
ResolveROI == resolve_target_filepath(form.regions, form.regions_prefix, ppt)

ResolveT1 == resolve_target_filepath(form.volumes, form.volume_prefix, ppt)

AtParticipant == pc = "participant" /\ i <= Len(participant_IDs)

\* exit(3) inside resolve_target_filepath, or os.listdir raising: the first call
\* that does not return ends the run (the second is not made when the first ends it)
ResolveEnds ==
    /\ AtParticipant
    /\ \/ /\ ResolveROI.outcome # "return"
          /\ ROI' = ResolveROI
          /\ T1' = Unset
          /\ pc' = ResolveROI.outcome
       \/ /\ ResolveROI.outcome = "return"
          /\ ResolveT1.outcome # "return"
          /\ ROI' = ResolveROI
          /\ T1' = ResolveT1
          /\ pc' = ResolveT1.outcome
    /\ UNCHANGED <<form, picks, dirs, files, run, prev, dialogs, mask_values, participant_IDs,
                   output_location, i, r, pstate, calls>>

BothReturn == ResolveROI.outcome = "return" /\ ResolveT1.outcome = "return"

\* (mutant) only the ROI is looked at
MissingInput_OnlyROI(ROI_found, T1_found) == ~ROI_found

\* not ROI_found, or not T1_found
MissingInput(ROI_found, T1_found) == ~ROI_found \/ ~T1_found

\* if not ROI_found: continue / if not T1_found: continue
SkipMissingInput ==
    /\ AtParticipant
    /\ BothReturn
    /\ MissingInput(ResolveROI.found, ResolveT1.found)
    /\ ROI' = ResolveROI
    /\ T1' = ResolveT1
    /\ pstate' = [pstate EXCEPT ![i] = "SKIPPED_MISSING_INPUT"]
    /\ i' = i + 1
    /\ UNCHANGED <<form, picks, dirs, files, pc, run, prev, dialogs, mask_values, participant_IDs,
                   output_location, r, calls>>

\* (mutant) the skip is never taken
OutputExists_Never(path) == FALSE

\* (mutant) a file counts only when it holds something
OutputExists_NonEmpty(path) == path \in DOMAIN files /\ Len(files[path]) > 3

\* (mutant) a file counts only when it holds an entry for every region
OutputExists_Complete(path) ==
    /\ path \in DOMAIN files
    /\ Cardinality({k \in 1..Len(files[path]) : files[path][k].t \in {"HEADER", "MASKERROR"}})
           >= Len(mask_values)

\* (mutant) a file this run has written does not count
OutputExists_NotThisRun(path) ==
    /\ path \in DOMAIN files
    /\ \A c \in 1..Len(calls) : FeatureOutpath(output_location, calls[c].ID) # path

\* os.path.exists(feature_outpath)
OutputExists(path) == path \in DOMAIN files

\* if os.path.exists(feature_outpath): continue
SkipAlreadyDone ==
    /\ AtParticipant
    /\ BothReturn
    /\ ~MissingInput(ResolveROI.found, ResolveT1.found)
    /\ OutputExists(feature_outpath)
    /\ ROI' = ResolveROI
    /\ T1' = ResolveT1
    /\ pstate' = [pstate EXCEPT ![i] = "SKIPPED_ALREADY_DONE"]
    /\ i' = i + 1
    /\ UNCHANGED <<form, picks, dirs, files, pc, run, prev, dialogs, mask_values, participant_IDs,
                   output_location, r, calls>>

\* the participant is operated on: the loop over mask_values.keys() begins
BeginRegions ==
    /\ AtParticipant
    /\ BothReturn
    /\ ~MissingInput(ResolveROI.found, ResolveT1.found)
    /\ ~OutputExists(feature_outpath)
    /\ ROI' = ResolveROI
    /\ T1' = ResolveT1
    /\ r' = 1
    /\ pc' = "region"
    /\ UNCHANGED <<form, picks, dirs, files, run, prev, dialogs, mask_values, participant_IDs,
                   output_location, i, pstate, calls>>

AtRegion == pc = "region" /\ r <= Len(mask_values)

\* (mutant) the keys are taken last first
keys_Reversed(d) == [k \in 1..Len(d) |-> d[Len(d) + 1 - k].key]

\* mask_values.keys(): the keys in the order of their insertion
keys(d) == [k \in 1..Len(d) |-> d[k].key]

\* for index in mask_values.keys()
index == keys(mask_values)[r]

\* extractor.execute(T1_path, ROI_path, label = index) and how it ended:
\* "returned" a feature mapping, "ValueError" with a message, or "raised"
Call(outcome, feature_result, error) ==
    [position |-> i, ID |-> ppt, T1_path |-> T1.fullpath, ROI_path |-> ROI.fullpath,
     region |-> r, label |-> index, name |-> DictGet(mask_values, index),
     outcome |-> outcome, result |-> feature_result, error |-> error]

\* (mutant) a mode that does not create the file
AppendTo_NoCreate(fs, path, text) ==
    IF path \in DOMAIN fs THEN [fs EXCEPT ![path] = @ \o text] ELSE fs

\* open(path, 'a') and the writes: the file is created when it is not there,
\* and the text goes after what it holds
AppendTo(fs, path, text) ==
    IF path \in DOMAIN fs
    THEN [fs EXCEPT ![path] = @ \o text]
    ELSE (path :> text) @@ fs

\* except ValueError: the $MASKERROR line, then continue
ExtractValueError ==
    /\ AtRegion
    /\ \E error \in ErrorMessages :
          /\ calls' = Append(calls, Call("ValueError", <<>>, error))
          /\ files' = AppendTo(files, feature_outpath,
                               ErrorText(DictGet(mask_values, index), index, error))
    /\ r' = r + 1
    /\ UNCHANGED <<form, picks, dirs, pc, run, prev, dialogs, mask_values, participant_IDs,
                   output_location, i, ROI, T1, pstate>>

\* the call returns feature_result: the block of the region
ExtractSuccess ==
    /\ AtRegion
    /\ \E feature_result \in Results :
          /\ calls' = Append(calls, Call("returned", feature_result, ""))
          /\ files' = AppendTo(files, feature_outpath,
                               SuccessText(DictGet(mask_values, index), index, feature_result))
    /\ r' = r + 1
    /\ UNCHANGED <<form, picks, dirs, pc, run, prev, dialogs, mask_values, participant_IDs,
                   output_location, i, ROI, T1, pstate>>

\* featureextractor.RadiomicsFeatureExtractor(parameters, correctMask = True)
\* fails: the constructor stands before the try, so whatever it raises
\* (a ValueError too) ends main(); execute is not called, nothing is written
ConstructorRaises ==
    /\ AtRegion
    /\ pc' = "raise"
    /\ UNCHANGED <<form, picks, dirs, files, run, prev, dialogs, mask_values, participant_IDs,
                   output_location, i, ROI, T1, r, pstate, calls>>

\* extractor.execute fails with anything but ValueError: nothing catches it
ExtractRaises ==
    /\ AtRegion
    /\ calls' = Append(calls, Call("raised", <<>>, ""))
    /\ pc' = "raise"
    /\ UNCHANGED <<form, picks, dirs, files, run, prev, dialogs, mask_values, participant_IDs,
                   output_location, i, ROI, T1, r, pstate>>

\* the end of the loop over the masks: the separator line, the next participant
EndRegions ==
    /\ pc = "region"
    /\ r > Len(mask_values)
    /\ pstate' = [pstate EXCEPT ![i] = "PROCESSED"]
    /\ i' = i + 1
    /\ pc' = "participant"
    /\ UNCHANGED <<form, picks, dirs, files, run, prev, dialogs, mask_values, participant_IDs,
                   output_location, ROI, T1, r, calls>>

\* the end of the loop over the participants: main() returns to the form
MainReturns ==
    /\ pc = "participant"
    /\ i > Len(participant_IDs)
    /\ pc' = "done"
    /\ UNCHANGED <<form, picks, dirs, files, run, prev, dialogs, mask_values, participant_IDs,
                   output_location, i, ROI, T1, r, pstate, calls>>

Ended == pc \in {"done", "raise", "exit"}

\* "Run Radiomics!" can be pressed again: main() has returned, or an error it
\* raised was reported by the event loop, which goes on; the entries of the
\* form and the output tree are as they were left
RunAgain ==
    /\ pc \in {"done", "raise"}
    /\ run < MaxRuns
    /\ run' = run + 1
    /\ prev' = pc
    /\ pc' = "idle"
    /\ picks' = 0
    /\ dialogs' = <<>>
    /\ mask_values' = <<>>
    /\ participant_IDs' = <<>>
    /\ output_location' = [where |-> "", leaf |-> <<>>]
    /\ i' = 0
    /\ ROI' = Unset
    /\ T1' = Unset
    /\ r' = 0
    /\ pstate' = <<>>
    /\ calls' = <<>>
    /\ UNCHANGED <<form, dirs, files>>

\* the button "Quit...": the window is destroyed, the event loop and with it
\* the program ends
destroy_window ==
    /\ pc = "idle"
    /\ pc' = "quit"
    /\ UNCHANGED <<form, picks, dirs, files, run, prev, dialogs, mask_values, participant_IDs,
                   output_location, i, ROI, T1, r, pstate, calls>>

\* the program is started again after exit(3) or "Quit...": a new form with
\* empty entries; the output tree is as it was left
Restart ==
    /\ pc \in {"exit", "quit"}
    /\ run < MaxRuns
    /\ run' = run + 1
    /\ prev' = pc
    /\ pc' = "idle"
    /\ form' = EmptyForm
    /\ picks' = 0
    /\ dialogs' = <<>>
    /\ mask_values' = <<>>
    /\ participant_IDs' = <<>>
    /\ output_location' = [where |-> "", leaf |-> <<>>]
    /\ i' = 0
    /\ ROI' = Unset
    /\ T1' = Unset
    /\ r' = 0
    /\ pstate' = <<>>
    /\ calls' = <<>>
    /\ UNCHANGED <<dirs, files>>

\* ------------------------------------------------------- the file dialogs
\* What the dialogs answer: a directory or a file of the inputs above, or the
\* empty string when the dialog is cancelled (a path that is not there).
\* Each handler replaces the text of its entry by the answer.
PickedVolumes == VolumeDirs

PickedRegions == RegionDirs

PickedYAML == YAMLFiles

PickedMaskvalues == MaskFiles

PickedIDs == IDFiles

\* the handlers run when the event loop is idle
CanPick == pc = "idle" /\ picks < MaxPicks

select_volumes_directory ==
    /\ CanPick
    /\ \E volume_directory \in PickedVolumes : form' = [form EXCEPT !.volumes = volume_directory]
    /\ picks' = picks + 1
    /\ UNCHANGED <<dirs, files, pc, run, prev, dialogs, mask_values, participant_IDs,
                   output_location, i, ROI, T1, r, pstate, calls>>

select_regions_directory ==
    /\ CanPick
    /\ \E regions_directory \in PickedRegions : form' = [form EXCEPT !.regions = regions_directory]
    /\ picks' = picks + 1
    /\ UNCHANGED <<dirs, files, pc, run, prev, dialogs, mask_values, participant_IDs,
                   output_location, i, ROI, T1, r, pstate, calls>>

select_YAML_file ==
    /\ CanPick
    /\ \E filename \in PickedYAML : form' = [form EXCEPT !.YAMLparams = filename]
    /\ picks' = picks + 1
    /\ UNCHANGED <<dirs, files, pc, run, prev, dialogs, mask_values, participant_IDs,
                   output_location, i, ROI, T1, r, pstate, calls>>

select_maskvalues_file ==
    /\ CanPick
    /\ \E filename \in PickedMaskvalues : form' = [form EXCEPT !.maskvalues = filename]
    /\ picks' = picks + 1
    /\ UNCHANGED <<dirs, files, pc, run, prev, dialogs, mask_values, participant_IDs,
                   output_location, i, ROI, T1, r, pstate, calls>>

select_ID_file ==
    /\ CanPick
    /\ \E filename \in PickedIDs : form' = [form EXCEPT !.IDs_file = filename]
    /\ picks' = picks + 1
    /\ UNCHANGED <<dirs, files, pc, run, prev, dialogs, mask_values, participant_IDs,
                   output_location, i, ROI, T1, r, pstate, calls>>

Next ==
    \/ RunInputChecks
    \/ MainStartupChecks
    \/ MainSetup
    \/ ResolveEnds
    \/ SkipMissingInput
    \/ SkipAlreadyDone
    \/ BeginRegions
    \/ ExtractValueError
    \/ ExtractSuccess
    \/ ConstructorRaises
    \/ ExtractRaises
    \/ EndRegions
    \/ MainReturns
    \/ RunAgain
    \/ destroy_window
    \/ Restart
    \/ select_volumes_directory
    \/ select_regions_directory
    \/ select_YAML_file
    \/ select_maskvalues_file
    \/ select_ID_file

Spec == Init /\ [][Next]_vars

\* ------------------------------------------------- the resolver on its own
\* resolve_target_filepath applied once to a directory, a prefix (a string
\* or None) and an ID: the directory is form.regions, the result goes to ROI.
ResolverNames == {<<"a">>, <<"a", "b">>, <<"p", "a">>, <<"b", "a">>}

ResolverDirs ==
    {Present("regions", l) : l \in Listings(ResolverNames, Kinds, MaxListing)}

ResolverForms ==
    [ volumes : {Absent("volumes", <<>>)}, regions : ResolverDirs,
      maskvalues : {Absent("maskvalues", <<>>)}, YAMLparams : {Absent("params", NotMapping)},
      IDs_file : {Absent("ids", <<>>)},
      volume_prefix : {NonePrefix}, regions_prefix : {NonePrefix, Prefix(<<>>), Prefix(<<"p">>)},
      output_location : {"out"} ]

InitResolver ==
    /\ form \in ResolverForms
    /\ participant_IDs \in {<<ID>> : ID \in IDAll}
    /\ i = 1
    /\ pc = "resolve"
    /\ dirs = {}
    /\ files = NoFiles
    /\ run = 1
    /\ prev = "none"
    /\ dialogs = <<>>
    /\ mask_values = <<>>
    /\ output_location = [where |-> "", leaf |-> <<>>]
    /\ ROI = Unset
    /\ T1 = Unset
    /\ r = 0
    /\ pstate = <<>>
    /\ calls = <<>>
    /\ picks = 0

CallResolver ==
    /\ pc = "resolve"
    /\ ROI' = ResolveROI
    /\ pc' = ResolveROI.outcome
    /\ UNCHANGED <<form, picks, dirs, files, run, prev, dialogs, mask_values, participant_IDs,
                   output_location, i, T1, r, pstate, calls>>

SpecResolver == InitResolver /\ [][CallResolver]_vars

\* ------------------------------------------ create_output_folders on its own
\* create_output_folders(where, foldernames) applied, once and again, to an
\* output tree some of whose directories and files are there already.  The
\* root lies in a directory that exists ("out") or in one that does not.
FolderRoots ==
    {[where |-> w, leaf |-> date_today \o <<"_BinWidth_">> \o Decimal(25)] : w \in {"out", "away"}}

\* the trees a call can find: nothing, or the root with any of the folders
FolderTrees(where) ==
    IF where.where \notin Existing THEN {{}}
    ELSE {{}} \cup {{Path(where, <<>>, <<>>)} \cup {Path(where, FolderName(ID), <<>>) : ID \in S} :
                        S \in SUBSET IDAll}

\* what a run before has left in a feature file
OldText == SuccessText(<<"A">>, 1, <<>>)

\* the feature files a call can find: any of those of the folders that are there
FolderFiles(where, tree) ==
    {[p \in D |-> OldText] :
        D \in SUBSET {FeatureOutpath(where, ID) : ID \in {x \in IDAll : Path(where, FolderName(x), <<>>) \in tree}}}

InitFolders ==
    /\ output_location \in FolderRoots
    /\ participant_IDs \in SeqsUpTo(IDAll, MaxPpts)
    /\ dirs \in FolderTrees(output_location)
    /\ files \in FolderFiles(output_location, dirs)
    /\ form \in ResolverForms
    /\ form.regions = Present("regions", <<>>)
    /\ form.regions_prefix = NonePrefix
    /\ pc = "folders"
    /\ run = 1
    /\ prev = "none"
    /\ dialogs = <<>>
    /\ mask_values = <<>>
    /\ i = 0
    /\ ROI = Unset
    /\ T1 = Unset
    /\ r = 0
    /\ pstate = <<>>
    /\ calls = <<>>
    /\ picks = 0

\* one call of create_output_folders; run counts the calls
CallCreateFolders ==
    /\ pc \in {"folders", "return", "raise"}
    /\ run <= MaxRuns
    /\ LET made == create_output_folders(dirs, output_location, participant_IDs)
       IN  /\ dirs' = made.dirs
           /\ pc' = IF made.raised THEN "raise" ELSE "return"
    /\ prev' = pc
    /\ run' = run + 1
    /\ UNCHANGED <<form, picks, files, dialogs, mask_values, participant_IDs, output_location,
                   i, ROI, T1, r, pstate, calls>>

SpecFolders == InitFolders /\ [][CallCreateFolders]_vars

\* ------------------------------------------------- dict_from_file on its own
\* dict_from_file(filepath, separator) applied once to a text file.  The
\* lines: "1:amygdala", "14 : hippocampus", a second and a third line of key
\* 1 ("1:B", "01: a b "), "1_0:" (no value), "A" (no separator), "x:1" (no
\* number), "1:a:b" (two separators), a blank line, "1=A", a line of key 1
\* with a vertical tab, a form feed and the separators 0x1c-0x1f around the
\* separator and the value, and "-2:C", which has
\* no line break and so can only end a file.
DictLines ==
    { <<"1", ":", "a", "m", "y", "g", "d", "a", "l", "a", "\n">>,
      <<"1", "4", " ", ":", " ", "h", "i", "p", "p", "o", "c", "a", "m", "p", "u", "s", "\n">>,
      <<"1", ":", "B", "\n">>,
      <<"0", "1", ":", " ", "a", " ", "b", " ", "\n">>,
      <<"1", "_", "0", ":", "\n">>,
      <<"A", "\n">>,
      <<"x", ":", "1", "\n">>,
      <<"1", ":", "a", ":", "b", "\n">>,
      <<"\n">>,
      <<"1", "=", "A", "\n">>,
      <<"1", VT, ":", "\f", GS, "D", FS, RS, US, "\n">>,
      <<"-", "2", ":", "C">> }

ExampleFile == Present("maskvalues", <<<<"1", ":", "a", "m", "y", "g", "d", "a", "l", "a", "\n">>, <<"1", "4", " ", ":", " ", "h", "i", "p", "p", "o", "c", "a", "m", "p", "u", "s", "\n">>>>)

DictFiles ==
    {Present("maskvalues", l) : l \in {f \in SeqsUpTo(DictLines, MaxRegions) :
                                          \A k \in 1..(Len(f) - 1) : f[k][Len(f[k])] = "\n"}}
        \cup {Absent("maskvalues", <<>>)}

\* the arguments of the call
DictForms ==
    [ volumes : {Absent("volumes", <<>>)}, regions : {Absent("regions", <<>>)},
      maskvalues : DictFiles, YAMLparams : {Absent("params", NotMapping)},
      IDs_file : {Absent("ids", <<>>)},
      volume_prefix : {NonePrefix}, regions_prefix : {NonePrefix},
      output_location : {"out"}, separator : {":", "="} ]

InitDict ==
    /\ form \in DictForms
    /\ pc = "dict"
    /\ participant_IDs = <<>>
    /\ i = 0
    /\ dirs = {}
    /\ files = NoFiles
    /\ run = 1
    /\ prev = "none"
    /\ dialogs = <<>>
    /\ mask_values = <<>>
    /\ output_location = [where |-> "", leaf |-> <<>>]
    /\ ROI = Unset
    /\ T1 = Unset
    /\ r = 0
    /\ pstate = <<>>
    /\ calls = <<>>
    /\ picks = 0

\* the call: the mapping goes to mask_values when it returns
CallDictFromFile ==
    /\ pc = "dict"
    /\ LET values == dict_from_file(form.maskvalues, form.separator)
       IN  /\ mask_values' = values.values
           /\ pc' = IF values.raised THEN "raise" ELSE "return"
    /\ UNCHANGED <<form, picks, dirs, files, run, prev, dialogs, participant_IDs,
                   output_location, i, ROI, T1, r, pstate, calls>>

SpecDict == InitDict /\ [][CallDictFromFile]_vars

\* ------------------------------------------------------- reading the files
\* the lines of a file that are not blank, in order
Lines(content) == SelectSeq(content, LAMBDA piece : piece.t # "NL")

\* every line of text stands on a line of its own
OwnLines(content) ==
    \A k \in 1..Len(content) :
        content[k].t # "NL" =>
            /\ k > 1 /\ content[k - 1].t = "NL"
            /\ k < Len(content) => content[k + 1].t = "NL"

Count(seq, Test(_)) == Cardinality({k \in 1..Len(seq) : Test(seq[k])})

IsPrefix(a, b) == Len(a) <= Len(b) /\ SubSeq(b, 1, Len(a)) = a

Content(fs, path) == IF path \in DOMAIN fs THEN fs[path] ELSE <<>>

OutpathOf(ID) == FeatureOutpath(output_location, ID)

\* the run got as far as the loop
InLoop == pc \in {"participant", "region"} \/ (Ended /\ i >= 1)

\* ------------------------------------------------------------------ claims

\* C1: once a run of the loop has completed, a further run over the same
\* output root and the same inputs (the window was not closed and no entry
\* was set since the first run ended), with no file removed, leaves every
\* feature output file as it was: no step of it creates or changes a file.
C1_SecondRunChangesNothing == [][(prev = "done" /\ picks = 0) => files' = files]_vars

C1_Witness ==
    /\ prev = "done" /\ picks = 0 /\ pc = "done"
    /\ \E k \in 1..Len(pstate) :
          /\ pstate[k] = "SKIPPED_ALREADY_DONE"
          /\ Len(Lines(files[OutpathOf(participant_IDs[k])])) > 2

\* the lookups of the participant at position k of the list
ROIOf(k) == resolve_target_filepath(form.regions, form.regions_prefix, participant_IDs[k])

T1Of(k) == resolve_target_filepath(form.volumes, form.volume_prefix, participant_IDs[k])

\* a lookup that was made and returned found = False
NotFound(k) ==
    /\ ROIOf(k).outcome = "return"
    /\ \/ ~ROIOf(k).found
       \/ T1Of(k).outcome = "return" /\ ~T1Of(k).found

\* C2 as stated: a participant one of whose files is not found gets no
\* extractor call and no write, and the loop goes on to the next participant.
C2_Original ==
    [][AtParticipant /\ NotFound(i) =>
          /\ calls' = calls /\ files' = files
          /\ pc' = "participant" /\ i' = i + 1]_vars

\* C2 (amended): a participant one of whose files is not found gets no
\* extractor call in the whole run, and no step of the run creates or changes
\* its feature file (it has none in a first run); the loop goes on to
\* the next participant unless the ROI is not found and the volume lookup made
\* after it ends the run (exit(3) or a raised error).
C2_MissingInputSkipped ==
    /\ [](InLoop =>
            \A k \in 1..Len(participant_IDs) :
                NotFound(k) =>
                    /\ \A c \in 1..Len(calls) : calls[c].position # k
                    /\ run = 1 => OutpathOf(participant_IDs[k]) \notin DOMAIN files)
    /\ [][InLoop =>
            \A k \in 1..Len(participant_IDs) :
                NotFound(k) =>
                    LET p == OutpathOf(participant_IDs[k])
                    IN  /\ p \in DOMAIN files' <=> p \in DOMAIN files
                        /\ Content(files', p) = Content(files, p)]_vars
    /\ [][AtParticipant /\ NotFound(i) =>
            /\ calls' = calls /\ files' = files /\ i' \in {i, i + 1}
            /\ IF T1Of(i).outcome = "return"
               THEN pc' = "participant" /\ i' = i + 1
               ELSE pc' = T1Of(i).outcome /\ i' = i]_vars

\* a participant without ROI file is passed over and the next one is processed
C2_Witness ==
    /\ pc = "done" /\ Len(pstate) = 2
    /\ pstate[1] = "SKIPPED_MISSING_INPUT" /\ ~ROIOf(1).found
    /\ pstate[2] = "PROCESSED" /\ calls # <<>>
    /\ DOMAIN files = {OutpathOf(participant_IDs[2])}

\* C3: a participant whose output file exists when the loop reaches it (both
\* inputs resolved) is skipped: no extractor call, no file changed, whatever
\* the file holds.
C3_ExistingOutputSkipped ==
    /\ [][/\ AtParticipant /\ BothReturn
           /\ ResolveROI.found /\ ResolveT1.found
           /\ feature_outpath \in DOMAIN files
           => /\ calls' = calls /\ files' = files
              /\ pc' = "participant" /\ i' = i + 1
              /\ pstate'[i] = "SKIPPED_ALREADY_DONE"]_vars
    /\ [](InLoop =>
            \A k \in 1..Len(pstate) :
                pstate[k] = "SKIPPED_ALREADY_DONE" =>
                    \A c \in 1..Len(calls) : calls[c].position # k)

\* a file left with one region of two by a run that raised, skipped later
C3_Witness ==
    /\ prev = "raise" /\ pc = "done"
    /\ \E k \in 1..Len(pstate) :
          /\ pstate[k] = "SKIPPED_ALREADY_DONE"
          /\ Len(mask_values) = 2
          /\ Lines(files[OutpathOf(participant_IDs[k])]) \in
                 {<<MaskError(mask_values[1].value, mask_values[1].key, m)>> :
                      m \in ErrorMessages}

IsErrorOf(c, l) == l.t = "MASKERROR" /\ l.name = c.name /\ l.index = c.label

IsHeaderOf(c, l) == l.t = "HEADER" /\ l.name = c.name /\ l.index = c.label

\* C4: a region whose extractor call fails with ValueError gets exactly one
\* $MASKERROR[name:index] line in the participant's file, on a line of its
\* own, and no $[name:index] header, feature line or MASKBREAK; the
\* participant goes on: the loop is at the next region of the mapping right
\* after the line is written, and what happens to the participant then is
\* what that region does (its extractor is built and called, or building it
\* fails before any call).
C4_MaskErrorLine ==
  /\ [][(Len(calls') > Len(calls) /\ calls'[Len(calls')].outcome = "ValueError") =>
          /\ pc' = "region" /\ i' = i /\ r' = r + 1
          /\ pstate' = pstate]_vars
  /\ [](InLoop =>
        \A n \in 1..Len(calls) :
            calls[n].outcome = "ValueError" =>
                LET c == calls[n]
                    path == OutpathOf(c.ID)
                    before == Len(SelectSeq(SubSeq(calls, 1, n - 1), LAMBDA d : d.ID = c.ID))
                    lines == Lines(Content(files, path))
                    at == {k \in 1..Len(lines) : IsErrorOf(c, lines[k])}
                IN  /\ path \in DOMAIN files
                    /\ OwnLines(files[path])
                    /\ Cardinality(at) = 1
                    /\ Count(lines, LAMBDA l : IsHeaderOf(c, l)) = 0
                    /\ \A k \in at :
                          /\ lines[k].msg = c.error
                          \* what follows the line is the entry of the next region
                          /\ k < Len(lines) => lines[k + 1].t \in {"MASKERROR", "HEADER"}
                          \* what precedes it is the end of the entry before
                          /\ k > 1 => lines[k - 1].t \in {"MASKERROR", "MASKBREAK"}
                    \* the next region is attempted: its call was made, or the
                    \* loop is at it, or its extractor could not be built
                    /\ c.region < Len(mask_values) =>
                          \/ /\ n < Len(calls)
                             /\ calls[n + 1].position = c.position
                             /\ calls[n + 1].region = c.region + 1
                          \/ /\ n = Len(calls) /\ pc \in {"region", "raise"}
                             /\ i = c.position /\ r = c.region + 1
                    /\ c.region = Len(mask_values) /\ n = Len(calls) =>
                          pc \in {"region", "participant", "done", "exit", "raise"})

\* a failing first region followed by a second region that succeeded
C4_Witness ==
    /\ Len(calls) = 2
    /\ calls[1].outcome = "ValueError" /\ calls[2].outcome = "returned"
    /\ calls[1].position = calls[2].position
    /\ Len(Lines(files[OutpathOf(calls[1].ID)])) = 3 + MaxFeatures

\* the lines of the block of a result
BlockOf(c) ==
    <<Header(c.name, c.label)>>
        \o [k \in 1..Len(c.result) |-> FeatureLine(c.result[k].key, c.result[k].value)]
        \o <<MaskBreak>>

\* C5: a region whose extractor call succeeds appends to the participant's
\* file, after all it held, one $[name:index] header line, one feature:value
\* line per entry of the result in its order, and one MASKBREAK line, each on
\* a line of its own, and no $MASKERROR line; nothing else changes.
C5_SuccessBlock ==
    [][(Len(calls') = Len(calls) + 1 /\ calls'[Len(calls')].outcome = "returned") =>
          LET c == calls'[Len(calls')]
              path == OutpathOf(c.ID)
              old == Content(files, path)
          IN  /\ path \in DOMAIN files'
              /\ IsPrefix(old, files'[path])
              /\ Lines(files'[path]) = Lines(old) \o BlockOf(c)
              /\ Len(BlockOf(c)) = Len(c.result) + 2
              /\ OwnLines(files'[path])
              /\ Count(Lines(files'[path]), LAMBDA l : IsHeaderOf(c, l)) = 1
              /\ Count(Lines(files'[path]), LAMBDA l : IsErrorOf(c, l)) = 0
              /\ \A q \in DOMAIN files : q # path => q \in DOMAIN files' /\ files'[q] = files[q]
              /\ DOMAIN files' = DOMAIN files \cup {path}]_vars

\* a block of MaxFeatures features written after an earlier entry of the file
C5_Witness ==
    /\ Len(calls) = 2
    /\ calls[2].outcome = "returned" /\ Len(calls[2].result) = MaxFeatures
    /\ calls[1].outcome = "returned" /\ calls[1].result = <<>>
    /\ calls[1].position = calls[2].position
    /\ Len(Lines(files[OutpathOf(calls[2].ID)])) = 4 + MaxFeatures

PState == {"SKIPPED_MISSING_INPUT", "SKIPPED_ALREADY_DONE", "PROCESSED"}

\* C6 as stated: after a run that returned, every participant is in one of
\* the three end states, and a PROCESSED participant has an output file,
\* whatever the size of the mapping.
C6_Original ==
    pc = "done" =>
        \A k \in 1..Len(participant_IDs) :
            /\ pstate[k] \in PState
            /\ pstate[k] = "PROCESSED" => OutpathOf(participant_IDs[k]) \in DOMAIN files

\* C6 (amended): after a run that returned, every participant is in one of
\* the three end states, and a PROCESSED participant has an output file
\* provided the mapping has at least one entry; with an empty mapping a
\* PROCESSED participant has called the extractor for nothing and has no file.
C6_EndStates ==
    pc = "done" =>
        /\ Len(pstate) = Len(participant_IDs)
        /\ \A k \in 1..Len(participant_IDs) :
            /\ pstate[k] \in PState
            /\ (pstate[k] = "PROCESSED" /\ mask_values # <<>>) =>
                  OutpathOf(participant_IDs[k]) \in DOMAIN files
            /\ (pstate[k] = "PROCESSED" /\ mask_values = <<>>) =>
                  /\ OutpathOf(participant_IDs[k]) \notin DOMAIN files
                  /\ calls = <<>>

\* two participants processed, one with every region failing
C6_Witness ==
    /\ pc = "done" /\ Len(pstate) = 2 /\ Len(mask_values) = 2
    /\ pstate[1] = "PROCESSED" /\ pstate[2] = "PROCESSED"
    /\ \A n \in 1..Len(calls) : calls[n].position = 1 => calls[n].outcome = "ValueError"
    /\ Len(calls) = 4

\* what a lookup is asked for: prefix + ID, an absent prefix being ""
Wanted(prefix, ID) == (IF prefix.none THEN <<>> ELSE prefix.s) \o ID

\* the positions of the listing whose entry is no directory and whose name
\* begins, character by character, with what is asked for
Qualifying(dir, prefix, ID) ==
    {k \in 1..Len(dir.content) :
        /\ dir.content[k].kind # "dir"
        /\ Len(dir.content[k].name) >= Len(Wanted(prefix, ID))
        /\ \A n \in 1..Len(Wanted(prefix, ID)) : dir.content[k].name[n] = Wanted(prefix, ID)[n]}

First(S) == CHOOSE k \in S : \A j \in S : k <= j

\* the first qualifying entry is one os.path.exists denies
SelectedIsGone(dir, prefix, ID) ==
    /\ dir.present
    /\ Qualifying(dir, prefix, ID) # {}
    /\ dir.content[First(Qualifying(dir, prefix, ID))].kind = "dangling"

\* C7 as stated: found = true is returned exactly when some entry that is no
\* directory begins with prefix + ID, with the path of the first such entry;
\* found = false when none does.
C7_Original ==
    pc # "resolve" =>
        LET Q == Qualifying(form.regions, form.regions_prefix, ppt)
        IN  /\ (ROI.outcome = "return" /\ ROI.found) <=> Q # {}
            /\ Q # {} => ROI.fullpath = [dir |-> "regions", name |-> form.regions.content[First(Q)].name]
            /\ Q = {} => ROI.outcome = "return" /\ ~ROI.found

\* C7 (amended): whenever the call returns, found = true exactly when some
\* entry that is no directory begins with prefix + ID (an absent prefix being
\* ""), and the path is that of the first such entry in listing order; it
\* returns found = false when none qualifies; it does not return (exit(3))
\* exactly when the first qualifying entry does not exist.
C7_FirstMatch ==
    pc # "resolve" =>
        LET Q == Qualifying(form.regions, form.regions_prefix, ppt)
        IN  /\ ROI.outcome \in {"return", "exit"}
            /\ ROI.outcome = "return" =>
                  /\ ROI.found <=> Q # {}
                  /\ ROI.found =>
                        ROI.fullpath = [dir |-> "regions", name |-> form.regions.content[First(Q)].name]
                  /\ ~ROI.found => ROI.fullpath = NoPath
            /\ Q = {} => ROI.outcome = "return" /\ ~ROI.found
            /\ ROI.outcome = "exit" <=> SelectedIsGone(form.regions, form.regions_prefix, ppt)

\* an absent prefix and two entries that match: the first one is returned
C7_Witness ==
    /\ pc = "return" /\ ROI.found
    /\ form.regions_prefix = NonePrefix
    /\ Cardinality(Qualifying(form.regions, form.regions_prefix, ppt)) = 2
    /\ ROI.fullpath.name = <<"a", "b">>
    /\ form.regions.content[Len(form.regions.content)].name = <<"a">>

\* the lookup that ended the run with exit()
Fatal == IF ROI.outcome = "exit" THEN ROI ELSE T1

\* the lookups of this iteration select an entry that does not exist
LoopSelectsGone ==
    \/ SelectedIsGone(form.regions, form.regions_prefix, ppt)
    \/ /\ form.regions.present
       /\ ~SelectedIsGone(form.regions, form.regions_prefix, ppt)
       /\ SelectedIsGone(form.volumes, form.volume_prefix, ppt)

\* C8: when a lookup of the loop selects an entry whose path does not exist,
\* the process ends at once with exit status 3: the loop gets no result
\* pair, the participant gets no end state, and until the program is started
\* again no extractor call is made and no file is written.
C8_ExitOnVanished ==
    /\ [][AtParticipant /\ LoopSelectsGone =>
            /\ pc' = "exit" /\ Fatal'.status = 3 /\ Fatal'.outcome = "exit"
            /\ i' = i /\ pstate' = pstate /\ calls' = calls /\ files' = files]_vars
    /\ [][pc = "exit" =>
            /\ pc' = "idle" /\ run' = run + 1 /\ calls' = <<>> /\ files' = files]_vars
    /\ [](pc = "exit" =>
            /\ Fatal.status = 3 /\ ~Fatal.found
            /\ LoopSelectsGone
            /\ \A k \in i..Len(pstate) : pstate[k] = "PENDING"
            /\ \A c \in 1..Len(calls) : calls[c].position < i)

\* the second participant's ROI is a dangling link: exit after the first
\* participant was processed
C8_Witness ==
    /\ pc = "exit" /\ i = 2 /\ ROI.status = 3
    /\ pstate = <<"PROCESSED", "PENDING">>
    /\ Len(calls) = 2

\* the parameter file is a mapping without setting, or with a setting mapping
\* without binWidth
LacksBinWidth(file) ==
    /\ file.present /\ file.content.mapping
    /\ \/ \A k \in 1..Len(file.content.items) : file.content.items[k].key # "setting"
       \/ \E k \in 1..Len(file.content.items) :
             /\ file.content.items[k].key = "setting"
             /\ file.content.items[k].value.mapping
             /\ \A n \in 1..Len(file.content.items[k].value.items) :
                   file.content.items[k].value.items[n].key # "binWidth"

\* C9 as stated: with a parameter file that lacks the setting section or its
\* binWidth field the run ends before an output root is computed, a folder
\* made or a participant extracted.
C9_Original ==
    LacksBinWidth(form.YAMLparams) =>
        /\ output_location.leaf = <<>>
        /\ dirs = {}
        /\ calls = <<>>
        /\ pc \in {"idle", "setup", "raise"}

\* C9 (amended): a parameter file that lacks the setting section or its
\* binWidth field does not end the run: the KeyError is caught, the bin
\* width is None, the output root is <date>_BinWidth_None, the folders are
\* made and the participants are extracted as with any parameter file.
C9_MissingKeyIsNone ==
    /\ [][(/\ LacksBinWidth(form.YAMLparams) /\ pc = "setup"
            /\ ~dict_from_file(form.maskvalues, ":").raised
            /\ ~lines_from_file(form.IDs_file).raised)
           => pc' = "participant"]_vars
    /\ []((LacksBinWidth(form.YAMLparams) /\ InLoop) =>
            /\ output_location =
                  [where |-> form.output_location,
                   leaf |-> <<"date", "_BinWidth_", "N", "o", "n", "e">>]
            /\ Path(output_location, <<>>, <<>>) \in dirs
            /\ \A k \in 1..Len(participant_IDs) :
                  Path(output_location, FolderName(participant_IDs[k]), <<>>) \in dirs)

\* with a parameter file without binWidth both participants are extracted
C9_Witness ==
    /\ LacksBinWidth(form.YAMLparams)
    /\ pc = "done"
    /\ pstate = <<"PROCESSED", "PROCESSED">>
    /\ Len(calls) = 4
    /\ Cardinality(DOMAIN files) = 2
    /\ Cardinality(dirs) = 3

\* the reports are those of the paths the entries hold
ReportsOfForm ==
    /\ dialogs[1].box = "showinfo" <=> form.volumes.present
    /\ dialogs[2].box = "showinfo" <=> form.regions.present
    /\ dialogs[3].box = "showinfo" <=> form.maskvalues.present
    /\ dialogs[4].box = "showinfo" <=> form.YAMLparams.present

\* C10: perform_startup_checks reports one result per path, for the volume
\* directory, the ROI directory, the mask-values file and the parameter file
\* in this order, whatever the results before; main() goes on to its set-up
\* whatever the results; the checks alone change nothing but the reports.
C10_StartupChecks ==
    /\ [](dialogs # <<>> =>
            /\ Len(dialogs) = 4
            /\ [k \in 1..4 |-> dialogs[k].path] = <<"volumes", "regions", "maskvalues", "params">>
            /\ \A k \in 1..4 : dialogs[k].box \in {"showinfo", "showerror"})
    /\ []((dialogs # <<>> /\ (picks = 0 \/ pc \notin {"idle", "quit"})) => ReportsOfForm)
    /\ [][dialogs' # dialogs /\ dialogs' # <<>> => ReportsOfForm']_vars
    /\ [](pc \notin {"idle", "quit"} => dialogs # <<>>)
    \* a run that ends before the loop ends on a failed read, not on a check
    /\ []((Ended /\ i = 0) =>
            /\ pc = "raise"
            /\ \/ dict_from_file(form.maskvalues, ":").raised
               \/ lines_from_file(form.IDs_file).raised
               \/ verbose_output_location(form.output_location, form.YAMLparams).raised)
    /\ [][(pc = "idle" /\ dialogs' # dialogs) =>
            /\ pc' \in {"idle", "setup"}
            /\ UNCHANGED <<form, picks, dirs, files, run, prev, mask_values, participant_IDs,
                           output_location, i, ROI, T1, r, pstate, calls>>]_vars

\* both directories are missing, all four paths are reported, and main() has
\* done its set-up and made the folders
C10_Witness ==
    /\ dialogs # <<>>
    /\ [k \in 1..4 |-> dialogs[k].box] = <<"showerror", "showerror", "showinfo", "showinfo">>
    /\ pc = "participant" /\ i = 1
    /\ Cardinality(dirs) = 3

\* the directories create_output_folders is asked for
WantedFolders ==
    {Path(output_location, <<>>, <<>>)}
        \cup {Path(output_location, FolderName(participant_IDs[k]), <<>>) :
                  k \in 1..Len(participant_IDs)}

\* C11: whatever directories of the output tree exist already (the parent of
\* the root being there), a call of create_output_folders ends without error,
\* after it the root and the <ID>_Features folder of every participant exist,
\* no directory or file that was there is removed or changed, nothing but the
\* folders asked for is made, and a further call changes nothing.
C11_FoldersIdempotent ==
    /\ []((run > 1 /\ output_location.where \in Existing) => pc = "return")
    /\ [](pc = "return" => WantedFolders \subseteq dirs)
    /\ [][/\ dirs \subseteq dirs'
          /\ dirs' \ dirs \subseteq WantedFolders
          /\ files' = files]_vars
    /\ [][pc = "return" => (dirs' = dirs /\ pc' = "return")]_vars

\* two calls made on a tree that held the root and one of the two folders,
\* with the feature file of a run before in it
C11_Witness ==
    /\ pc = "return" /\ prev = "return" /\ run > 2
    /\ Len(participant_IDs) = 2 /\ participant_IDs[1] # participant_IDs[2]
    /\ Cardinality(dirs) = 3
    /\ Cardinality(DOMAIN files) = 1
    /\ \A p \in DOMAIN files : files[p] = OldText

Last(S) == CHOOSE k \in S : \A j \in S : k >= j

\* where the separator stands in a line
SepPositions(line, sep) == {k \in 1..Len(line) : line[k] = sep}

\* a text without the whitespace at its two ends
Trimmed(text) ==
    LET ink == {k \in 1..Len(text) : text[k] \notin Whitespace}
    IN  IF ink = {} THEN <<>> ELSE SubSeq(text, First(ink), Last(ink))

\* what stands before and after the separator of a line that has one
KeyText(line, sep) == Trimmed(SubSeq(line, 1, First(SepPositions(line, sep)) - 1))

ValueText(line, sep) == Trimmed(SubSeq(line, First(SepPositions(line, sep)) + 1, Len(line)))

\* a line "key<sep>value" with a number for key
WellFormed(line, sep) ==
    /\ Cardinality(SepPositions(line, sep)) = 1
    /\ IsInt(KeyText(line, sep))

KeyOf(line, sep) == IntOf(KeyText(line, sep))

\* the file of the call is there and all its lines are well-formed
AllWellFormed ==
    /\ form.maskvalues.present
    /\ \A k \in 1..Len(form.maskvalues.content) :
          WellFormed(form.maskvalues.content[k], form.separator)

\* C12 as stated: of a file of lines key<sep>value the mapping is returned
\* that holds, for every line, the integer of the trimmed key mapped to the
\* trimmed value; a line without separator or without a number for key makes
\* the call fail.
C12_Original ==
    pc # "dict" =>
        LET content == form.maskvalues.content
            sep == form.separator
        IN  /\ (\E k \in 1..Len(content) :
                   \/ SepPositions(content[k], sep) = {}
                   \/ /\ Cardinality(SepPositions(content[k], sep)) = 1
                      /\ ~IsInt(KeyText(content[k], sep))) => pc = "raise"
            /\ AllWellFormed =>
                  /\ pc = "return"
                  /\ \A k \in 1..Len(content) :
                        /\ HasKey(mask_values, KeyOf(content[k], sep))
                        /\ DictGet(mask_values, KeyOf(content[k], sep)) = ValueText(content[k], sep)

\* C12 (amended): of a file of lines key<sep>value the mapping is returned
\* that holds, for every line, the integer of the trimmed key mapped to the
\* trimmed value of the last line that has this integer for key, and nothing
\* else; a line without separator or without a number for key makes the call
\* fail, and no mapping is returned.
C12_DictFromFile ==
    pc # "dict" =>
        LET content == form.maskvalues.content
            sep == form.separator
            at(key) == {k \in 1..Len(content) :
                           WellFormed(content[k], sep) /\ KeyOf(content[k], sep) = key}
        IN  /\ (\E k \in 1..Len(content) :
                   \/ SepPositions(content[k], sep) = {}
                   \/ /\ Cardinality(SepPositions(content[k], sep)) = 1
                      /\ ~IsInt(KeyText(content[k], sep))) => pc = "raise"
            /\ pc = "raise" => mask_values = <<>>
            /\ AllWellFormed =>
                  /\ pc = "return"
                  /\ \A k \in 1..Len(content) :
                        LET key == KeyOf(content[k], sep)
                        IN  /\ HasKey(mask_values, key)
                            /\ DictGet(mask_values, key) = ValueText(content[Last(at(key))], sep)
                  /\ \A n \in 1..Len(mask_values) : at(mask_values[n].key) # {}
            /\ form.maskvalues = ExampleFile /\ sep = ":" =>
                  /\ Len(mask_values) = 2
                  /\ DictGet(mask_values, 1) = <<"a", "m", "y", "g", "d", "a", "l", "a">>
                  /\ DictGet(mask_values, 14) = <<"h", "i", "p", "p", "o", "c", "a", "m", "p", "u", "s">>

\* two lines of the same key: one entry, with the value of the second line
C12_Witness ==
    /\ pc = "return"
    /\ Len(form.maskvalues.content) = 2
    /\ Len(mask_values) = 1
    /\ mask_values[1].value = ValueText(form.maskvalues.content[2], form.separator)
    /\ mask_values[1].value # ValueText(form.maskvalues.content[1], form.separator)

\* the entries of a feature file: its $[name:index] and $MASKERROR lines
Entries(content) == SelectSeq(content, LAMBDA piece : piece.t \in {"HEADER", "MASKERROR"})

\* the loop over the regions is writing this file
BeingWritten(p) == pc = "region" /\ p = feature_outpath

\* a file that holds the entries of some but not all regions of the mapping
\* of the run and that no loop is writing: what a run that stopped in the
\* middle of a participant left
Stale(p) ==
    /\ p \in DOMAIN files
    /\ ~BeingWritten(p)
    /\ Len(Entries(files[p])) >= 1
    /\ Len(Entries(files[p])) < Len(mask_values)

\* the extractor calls of this run for an ID
CallsFor(ID) == SelectSeq(calls, LAMBDA c : c.ID = ID)

\* C13 as stated: every later run over the same output root classifies the
\* participant of a partial file as already done: in a later run that has gone
\* through its list, every listed participant with a partial file under the
\* root of the run has ended its iterations as SKIPPED_ALREADY_DONE.
C13_Original ==
    (pc = "done" /\ run > 1) =>
        \A k \in 1..Len(participant_IDs) :
            (CallsFor(participant_IDs[k]) = <<>> /\ Stale(OutpathOf(participant_IDs[k])))
                => pstate[k] = "SKIPPED_ALREADY_DONE"

\* C13 (amended): a run that stops in the middle of a participant, after the
\* entries of k of its n regions (1 <= k < n), leaves the file with these k
\* entries; the file is then never changed and no extractor call is made for
\* its participant.  A later run over the same output root that reaches the
\* participant ends the iteration as SKIPPED_ALREADY_DONE when both its input
\* files are found and as SKIPPED_MISSING_INPUT when both lookups return and
\* one of them has found nothing; when a lookup does not return (exit(3), or
\* os.listdir raising: also the volume lookup made after an ROI that was not
\* found) the run ends there.  A file the region loop writes was not there
\* when the loop began, so no run completes what another left.
C13_PartialStays ==
    \* the stop: no rollback
    /\ []((pc = "raise" /\ i >= 1 /\ r >= 2 /\ r <= Len(mask_values)) =>
            /\ Stale(feature_outpath)
            /\ Len(Entries(files[feature_outpath])) = r - 1
            /\ \A k \in 1..(r - 1) : Entries(files[feature_outpath])[k].index = mask_values[k].key)
    \* afterwards: no change, no extraction (as for every file that the
    \* region loop is not writing, partial or not)
    /\ [][\A p \in DOMAIN files :
             ~BeingWritten(p) =>
                /\ p \in DOMAIN files' /\ files'[p] = files[p]
                /\ Len(calls') > Len(calls) =>
                      FeatureOutpath(output_location, calls'[Len(calls')].ID) # p]_vars
    \* the region loop writes only files it has begun itself
    /\ [][(pc # "region" /\ pc' = "region") => feature_outpath' \notin DOMAIN files]_vars
    /\ [](pc = "region" =>
            /\ Len(Entries(Content(files, feature_outpath))) = r - 1
            /\ Len(CallsFor(ppt)) = r - 1)
    \* a later run that reaches the participant skips it, or ends there
    /\ [][(AtParticipant /\ Stale(feature_outpath)) =>
            /\ calls' = calls /\ files' = files
            /\ IF ResolveROI.outcome # "return"
               THEN pc' = ResolveROI.outcome /\ i' = i /\ pstate' = pstate
               ELSE IF ResolveT1.outcome # "return"
               THEN pc' = ResolveT1.outcome /\ i' = i /\ pstate' = pstate
               ELSE /\ pc' = "participant" /\ i' = i + 1
                    /\ pstate'[i] = IF ResolveROI.found /\ ResolveT1.found
                                    THEN "SKIPPED_ALREADY_DONE"
                                    ELSE "SKIPPED_MISSING_INPUT"]_vars
    /\ [](InLoop =>
            \A k \in 1..Len(pstate) :
                (/\ pstate[k] # "PENDING"
                 /\ CallsFor(participant_IDs[k]) = <<>>
                 /\ Stale(OutpathOf(participant_IDs[k]))) =>
                    pstate[k] = IF ROIOf(k).found /\ T1Of(k).found
                                THEN "SKIPPED_ALREADY_DONE"
                                ELSE "SKIPPED_MISSING_INPUT")
    \* with the entries as they were and the window still open, the run gets
    \* as far as the participant
    /\ []((run = 2 /\ prev = "raise" /\ picks = 0 /\ Ended) =>
            \A p \in DOMAIN files :
                (Stale(p) /\ \A c \in 1..Len(calls) : OutpathOf(calls[c].ID) # p) =>
                    \E k \in 1..Len(pstate) :
                        /\ OutpathOf(participant_IDs[k]) = p
                        /\ pstate[k] = "SKIPPED_ALREADY_DONE")

\* the run after a stop in the first participant, one of two regions written:
\* that participant is skipped with its one entry, the next one is processed
C13_Witness ==
    /\ prev = "raise" /\ pc = "done"
    /\ Len(mask_values) = 2
    /\ pstate = <<"SKIPPED_ALREADY_DONE", "PROCESSED">>
    /\ Stale(OutpathOf(participant_IDs[1]))
    /\ Len(Entries(files[OutpathOf(participant_IDs[1])])) = 1
    /\ Len(Entries(files[OutpathOf(participant_IDs[2])])) = 2

\* the extractor calls of this run for a position of the list
CallsAt(k) == SelectSeq(calls, LAMBDA c : c.position = k)

\* the entry a call leaves in the file
EntryOf(c) == IF c.outcome = "returned" THEN "HEADER" ELSE "MASKERROR"

\* C14: in one run the extractor calls are made one after the other in the
\* order of the participant list and, within a participant, of the mapping:
\* no pair (participant, region) is called twice, also after a failure; a
\* processed participant has exactly one call per mapping entry and its file
\* holds one entry per mapping entry in mapping order; a skipped participant
\* has no call; and a write goes to the file of the participant the loop is
\* at, when no call for a later-listed participant has been made.
C14_Sequential ==
    /\ [](InLoop =>
            /\ \A a, b \in 1..Len(calls) :
                  a < b =>
                     \/ calls[a].position < calls[b].position
                     \/ /\ calls[a].position = calls[b].position
                        /\ calls[a].region < calls[b].region
            /\ \A c \in 1..Len(calls) :
                  /\ calls[c].position \in 1..Len(participant_IDs)
                  /\ calls[c].position <= i
                  /\ calls[c].ID = participant_IDs[calls[c].position]
                  /\ calls[c].region \in 1..Len(mask_values)
                  /\ calls[c].label = mask_values[calls[c].region].key
                  /\ calls[c].name = mask_values[calls[c].region].value
                  \* the call before it in the run is the region before it
                  /\ calls[c].region > 1 =>
                        /\ c > 1
                        /\ calls[c - 1].position = calls[c].position
                        /\ calls[c - 1].region = calls[c].region - 1
                        /\ calls[c - 1].outcome \in {"returned", "ValueError"}
            /\ \A k \in 1..Len(pstate) :
                  /\ pstate[k] \in {"SKIPPED_MISSING_INPUT", "SKIPPED_ALREADY_DONE"} =>
                        CallsAt(k) = <<>>
                  /\ pstate[k] = "PROCESSED" =>
                        LET entries == Entries(Content(files, OutpathOf(participant_IDs[k])))
                        IN  /\ Len(CallsAt(k)) = Len(mask_values)
                            /\ \A j \in 1..Len(mask_values) :
                                  /\ CallsAt(k)[j].region = j
                                  /\ CallsAt(k)[j].outcome \in {"returned", "ValueError"}
                            /\ Len(entries) = Len(mask_values)
                            /\ \A j \in 1..Len(mask_values) :
                                  /\ entries[j].index = mask_values[j].key
                                  /\ entries[j].name = mask_values[j].value
                                  /\ entries[j].t = EntryOf(CallsAt(k)[j]))
    /\ [][files' # files =>
            /\ pc = "region"
            /\ calls' = Append(calls, calls'[Len(calls')])
            /\ calls'[Len(calls')].position = i
            /\ \A c \in 1..Len(calls) : calls[c].position <= i
            /\ \A p \in DOMAIN files' : p # feature_outpath => (p \in DOMAIN files /\ files'[p] = files[p])
            /\ DOMAIN files' = DOMAIN files \cup {feature_outpath}]_vars
    /\ [][calls' # calls => (calls' = <<>> \/ (Len(calls') = Len(calls) + 1 /\ SubSeq(calls', 1, Len(calls)) = calls))]_vars

\* two participants of two regions each, processed one after the other, the
\* first region of the first participant failing
C14_Witness ==
    /\ pc = "done" /\ Len(calls) = 4
    /\ pstate = <<"PROCESSED", "PROCESSED">>
    /\ [c \in 1..4 |-> <<calls[c].position, calls[c].region>>] = <<<<1, 1>>, <<1, 2>>, <<2, 1>>, <<2, 2>>>>
    /\ calls[1].outcome = "ValueError" /\ calls[2].outcome = "returned"
    /\ Entries(files[OutpathOf(participant_IDs[2])])[2].index = mask_values[2].key

\* C15: after any number of runs over the same output root with no file
\* removed, and with participant IDs that occur more than once in the list,
\* every feature file holds at most one entry (a $[name:index] block or a
\* $MASKERROR line) per label index: no two entries of a file have the same
\* index.
C15_NoDuplicateEntries ==
    \A p \in DOMAIN files :
        LET entries == Entries(files[p])
        IN  \A d, e \in 1..Len(entries) : entries[d].index = entries[e].index => d = e

\* a list that names one participant twice, run twice: the first run has
\* processed it once and skipped it once, the second run has skipped it twice,
\* and its file holds one entry per region
C15_Witness ==
    /\ prev = "done" /\ pc = "done" /\ run > 1
    /\ Len(participant_IDs) = 2 /\ participant_IDs[1] = participant_IDs[2]
    /\ pstate = <<"SKIPPED_ALREADY_DONE", "SKIPPED_ALREADY_DONE">>
    /\ Len(mask_values) = 2
    /\ Len(Entries(files[OutpathOf(participant_IDs[1])])) = 2

====
